---------------------------- MODULE Spec2Model ----------------------------
(***************************************************************************)
(* The receipt processor: internal/receipt/processor.go and the router in  *)
(* main.go.                                                                *)
(*                                                                         *)
(* A Go string is a sequence of one-character strings (all characters used *)
(* are ASCII, so Len is len() in bytes).  An int64 is a record [q, r]      *)
(* standing for q * 2^62 + r with |r| far below 2^62: the values the       *)
(* program computes are small offsets from 0, from math.MinInt64 or from   *)
(* math.MaxInt64, and Add64 is addition modulo 2^64 on them.               *)
(***************************************************************************)
EXTENDS Integers, Sequences, FiniteSets, TLC

VARIABLES
    arch,          \* the build's target: decides int64(f) for f out of range
    receipt,       \* engine: the Receipt passed to calculatePoints
    pc,            \* engine: "ready" before the call, "done" after it returns
    points,        \* engine: the value calculatePoints returned
    added,         \* engine: what each rule added to points (lines 79..109)
    receiptStore,  \* the package's map[string]Receipt
    issued,        \* history: the body submitted under each id returned
    resp,          \* history: the last request served and its response
    handlers,      \* the handler goroutines: each one's request and position
    crashed        \* the runtime has thrown a fatal error

engine == <<receipt, pc, points, added>>
service == <<receiptStore, issued, resp>>
server == <<handlers, crashed>>
vars == <<arch, receipt, pc, points, added, receiptStore, issued, resp,
          handlers, crashed>>

-----------------------------------------------------------------------------
(* Characters *)

DigitChars == <<"0", "1", "2", "3", "4", "5", "6", "7", "8", "9">>
Digits == {DigitChars[i] : i \in 1..10}
LowerChars == {"a","b","c","d","e","f","g","h","i","j","k","l","m",
               "n","o","p","q","r","s","t","u","v","w","x","y","z"}
UpperChars == {"A","B","C","D","E","F","G","H","I","J","K","L","M",
               "N","O","P","Q","R","S","T","U","V","W","X","Y","Z"}
\* unicode.IsSpace restricted to ASCII, as strings.TrimSpace uses it
WhiteSpace == {" ", "\t", "\n", "\r", "\f"}

isDigit(s, i) == i <= Len(s) /\ s[i] \in Digits
DigitVal(c) == (CHOOSE i \in 1..10 : DigitChars[i] = c) - 1

RECURSIVE DigitsVal(_)
\* the number a run of decimal digits denotes
DigitsVal(ds) ==
    IF Len(ds) = 0 THEN 0
    ELSE 10 * DigitsVal(SubSeq(ds, 1, Len(ds) - 1)) + DigitVal(ds[Len(ds)])

RECURSIVE Pow10(_)
Pow10(n) == IF n = 0 THEN 1 ELSE 10 * Pow10(n - 1)

RECURSIVE NumDigits(_)
NumDigits(n) == IF n < 10 THEN 1 ELSE 1 + NumDigits(n \div 10)

-----------------------------------------------------------------------------
(* int64 *)

I64(n) == [q |-> 0, r |-> n]
MinInt64 == [q |-> -2, r |-> 0]
MaxInt64 == [q |-> 2, r |-> -1]

\* two's complement wrap of q * 2^62 + r into [-2^63, 2^63)
Wrap64(q, r) ==
    IF q > 2 \/ (q = 2 /\ r >= 0) THEN [q |-> q - 4, r |-> r]
    ELSE IF q < -2 \/ (q = -2 /\ r < 0) THEN [q |-> q + 4, r |-> r]
    ELSE [q |-> q, r |-> r]

Add64(a, b) == Wrap64(a.q + b.q, a.r + b.r)
IsNegative64(a) == a.q < 0 \/ (a.q = 0 /\ a.r < 0)

-----------------------------------------------------------------------------
(* strconv.ParseFloat(price, 64), as parsePrice calls it                   *)
(*                                                                         *)
(* The float64 result is a record: err is "nil", "syntax" or "range"; inf  *)
(* says the value is +-Inf; otherwise the value is (-1)^neg * mant *       *)
(* 10^exp10.  The strings fed to the model are made of digits, '.', '+',   *)
(* '-', 'e' and characters that belong to no number ('$', ' '); the forms  *)
(* "Inf", "NaN", "0x..p.." and digit-separating '_' are not among them.    *)
(* A decimal of that alphabet with at most seven significant digits and a  *)
(* decimal exponent in -9..9 is within 2^-53 (relative) of its float64, so *)
(* the two float64 computations the program makes on it,                   *)
(* math.Ceil(price * 0.2) and math.Mod(price, 0.25) == 0, have the values  *)
(* of the exact ones: 0.2 is the float64 0.2 * (1 + 2^-54), which moves    *)
(* price/5 by less than half an ulp when price/5 is an integer and by far  *)
(* less than its distance to the next integer otherwise.                   *)
(***************************************************************************)

RECURSIVE ScanMantissa(_, _, _)
\* readFloat's digit loop: the index after the longest run of digits that
\* holds at most one '.'
ScanMantissa(s, i, sawdot) ==
    IF i > Len(s) THEN i
    ELSE IF s[i] = "." THEN (IF sawdot THEN i ELSE ScanMantissa(s, i + 1, TRUE))
    ELSE IF s[i] \in Digits THEN ScanMantissa(s, i + 1, sawdot)
    ELSE i

RECURSIVE ScanDigits(_, _)
\* the index after the run of digits that starts at i
ScanDigits(s, i) == IF isDigit(s, i) THEN ScanDigits(s, i + 1) ELSE i

\* readFloat: [ok, neg, mant, exp10, n] with n the number of bytes consumed
readFloat(s) ==
    LET n     == Len(s)
        neg   == n >= 1 /\ s[1] = "-"
        i0    == IF n >= 1 /\ s[1] \in {"+", "-"} THEN 2 ELSE 1
        i1    == ScanMantissa(s, i0, FALSE)
        body  == SubSeq(s, i0, i1 - 1)
        digs  == SelectSeq(body, LAMBDA c : c \in Digits)
        dots  == {k \in 1..Len(body) : body[k] = "."}
        frac  == IF dots = {} THEN 0 ELSE Len(body) - (CHOOSE k \in dots : TRUE)
        mant  == DigitsVal(digs)
        hasE  == i1 <= n /\ s[i1] \in {"e", "E"}
        j0    == i1 + 1
        eneg  == j0 <= n /\ s[j0] = "-"
        j1    == IF j0 <= n /\ s[j0] \in {"+", "-"} THEN j0 + 1 ELSE j0
        j2    == ScanDigits(s, j1)
        e     == DigitsVal(SubSeq(s, j1, j2 - 1))
        bad   == [ok |-> FALSE, neg |-> FALSE, mant |-> 0, exp10 |-> 0, n |-> 0]
    IN  IF Len(digs) = 0 THEN bad
        ELSE IF hasE /\ j2 = j1 THEN bad
        ELSE [ok    |-> TRUE,
              neg   |-> neg,
              mant  |-> mant,
              exp10 |-> IF mant = 0 THEN 0
                        ELSE (IF hasE THEN (IF eneg THEN -e ELSE e) ELSE 0) - frac,
              n     |-> IF hasE THEN j2 - 1 ELSE i1 - 1]

\* the largest finite float64 is 1.797693134862315...e308
Float64Overflows(mant, exp10) ==
    LET top == NumDigits(mant) + exp10
    IN  mant # 0 /\
        (top > 309 \/
         (top = 309 /\ (IF NumDigits(mant) <= 7
                         THEN mant * Pow10(7 - NumDigits(mant))
                         ELSE mant \div Pow10(NumDigits(mant) - 7)) > 1797693))

\* values below 1e-330 become zero (decimal.floatBits: d.dp < -330)
Float64Underflows(mant, exp10) == mant # 0 /\ NumDigits(mant) + exp10 < -330

ParseFloat(s) ==
    LET f == readFloat(s)
    IN  IF ~f.ok \/ f.n # Len(s)
        THEN [err |-> "syntax", inf |-> FALSE, neg |-> FALSE, mant |-> 0, exp10 |-> 0]
        ELSE IF Float64Overflows(f.mant, f.exp10)
        THEN [err |-> "range", inf |-> TRUE, neg |-> f.neg, mant |-> 0, exp10 |-> 0]
        ELSE IF Float64Underflows(f.mant, f.exp10)
        THEN [err |-> "nil", inf |-> FALSE, neg |-> f.neg, mant |-> 0, exp10 |-> 0]
        ELSE [err |-> "nil", inf |-> FALSE, neg |-> f.neg, mant |-> f.mant,
              exp10 |-> f.exp10]

parsePrice(price) == ParseFloat(price)

\* math.Mod(price, 0.25) == 0; Mod(+-Inf, y) is NaN
ModQuarterIsZero(f) ==
    IF f.inf THEN FALSE
    ELSE IF f.mant = 0 \/ f.exp10 >= 0 THEN TRUE
    ELSE IF -f.exp10 >= 10 THEN FALSE
    ELSE (4 * f.mant) % Pow10(-f.exp10) = 0

\* int64(x) for a float64 x that no int64 holds: the Go specification leaves
\* the value to the implementation.  amd64's CVTTSD2SQ gives the "integer
\* indefinite" 0x8000000000000000, arm64's FCVTZS saturates.
Archs == {"amd64", "arm64"}
ConvOutOfRange(a, neg) ==
    IF a = "amd64" THEN MinInt64
    ELSE IF neg THEN MinInt64 ELSE MaxInt64

\* int64(price * 0.2): the conversion alone, which truncates
CeilFifthTruncated(f, a) ==
    IF f.inf THEN ConvOutOfRange(a, f.neg)
    ELSE IF f.mant = 0 THEN I64(0)
    ELSE IF f.exp10 >= 0
         THEN I64((IF f.neg THEN -1 ELSE 1) * ((f.mant * Pow10(f.exp10)) \div 5))
    ELSE IF -f.exp10 >= 10 THEN I64(0)
    ELSE I64((IF f.neg THEN -1 ELSE 1) * ((f.mant \div 5) \div Pow10(-f.exp10)))

\* int64(math.Ceil(price * 0.2)), line 98
CeilFifth(f, a) ==
    IF f.inf THEN ConvOutOfRange(a, f.neg)
    ELSE IF f.mant = 0 THEN I64(0)
    ELSE IF f.exp10 > 0 /\ NumDigits(f.mant) + f.exp10 > 20
         THEN ConvOutOfRange(a, f.neg)
    ELSE IF f.exp10 >= 0
         THEN (IF f.neg THEN I64(-((f.mant * Pow10(f.exp10)) \div 5))
               ELSE I64((f.mant * Pow10(f.exp10) + 4) \div 5))
    ELSE IF -f.exp10 >= 10 THEN (IF f.neg THEN I64(0) ELSE I64(1))
    ELSE LET den == Pow10(-f.exp10)
         IN  IF f.neg THEN I64(-((f.mant \div 5) \div den))
             ELSE I64((((f.mant + 4) \div 5) + den - 1) \div den)

-----------------------------------------------------------------------------
(* time.Parse with the layouts "2006-01-02" and "15:04" *)

\* getnum(s, fixed) at index i: [ok, val, next]
getnum(s, i, fixed) ==
    IF ~isDigit(s, i) THEN [ok |-> FALSE, val |-> 0, next |-> i]
    ELSE IF ~isDigit(s, i + 1)
         THEN (IF fixed THEN [ok |-> FALSE, val |-> 0, next |-> i]
               ELSE [ok |-> TRUE, val |-> DigitVal(s[i]), next |-> i + 1])
    ELSE [ok |-> TRUE, val |-> 10 * DigitVal(s[i]) + DigitVal(s[i + 1]),
          next |-> i + 2]

isLeap(year) == year % 4 = 0 /\ (year % 100 # 0 \/ year % 400 = 0)

daysIn(month, year) ==
    IF month = 2 THEN (IF isLeap(year) THEN 29 ELSE 28)
    ELSE IF month \in {4, 6, 9, 11} THEN 30
    ELSE 31

\* time.Parse("2006-01-02", date): [ok, year, month, day]
ParseDate(date) ==
    LET bad   == [ok |-> FALSE, year |-> 0, month |-> 0, day |-> 0]
        yOk   == Len(date) >= 4 /\ \A k \in 1..4 : isDigit(date, k)
        year  == DigitsVal(SubSeq(date, 1, 4))
        m     == getnum(date, 6, TRUE)
        d     == getnum(date, m.next + 1, TRUE)
    IN  IF ~yOk THEN bad
        ELSE IF ~(Len(date) >= 5 /\ date[5] = "-") THEN bad
        ELSE IF ~m.ok THEN bad
        ELSE IF ~(Len(date) >= m.next /\ date[m.next] = "-") THEN bad
        ELSE IF ~d.ok THEN bad
        ELSE IF d.next # Len(date) + 1 THEN bad
        ELSE IF m.val <= 0 \/ 12 < m.val THEN bad
        ELSE IF d.val < 1 \/ d.val > daysIn(m.val, year) THEN bad
        ELSE [ok |-> TRUE, year |-> year, month |-> m.val, day |-> d.val]

\* time.Parse("15:04", timeStr): [ok, hour, min]
ParseClock(timeStr) ==
    LET bad == [ok |-> FALSE, hour |-> 0, min |-> 0]
        h   == getnum(timeStr, 1, FALSE)
        mi  == getnum(timeStr, h.next + 1, TRUE)
    IN  IF ~h.ok THEN bad
        ELSE IF ~(Len(timeStr) >= h.next /\ timeStr[h.next] = ":") THEN bad
        ELSE IF ~mi.ok THEN bad
        ELSE IF mi.next # Len(timeStr) + 1 THEN bad
        ELSE IF 24 <= h.val THEN bad
        ELSE IF 60 <= mi.val THEN bad
        ELSE [ok |-> TRUE, hour |-> h.val, min |-> mi.val]


-----------------------------------------------------------------------------
(* The rules of calculatePoints *)

AlphaNumeric == LowerChars \cup UpperChars \cup Digits

\* regexp "[^a-zA-Z0-9]" replaced by ""
getAlphanumericString(s) == SelectSeq(s, LAMBDA c : c \in AlphaNumeric)

HasSuffix(s, suffix) ==
    Len(s) >= Len(suffix) /\
    SubSeq(s, Len(s) - Len(suffix) + 1, Len(s)) = suffix

\* a round dollar amount judged by value instead of by text
isRoundDollarByValue(total) ==
    LET price == ParseFloat(total)
    IN  price.err = "nil" /\ ~price.inf
        /\ (price.mant = 0 \/ price.exp10 >= 0
            \/ (-price.exp10 < 10 /\ price.mant % Pow10(-price.exp10) = 0))

isRoundDollar(total) == HasSuffix(total, <<".", "0", "0">>)

isMultipleOfQuarter(total) ==
    LET price == parsePrice(total)
    IN  IF price.err # "nil" THEN FALSE ELSE ModQuarterIsZero(price)

isOddDay(date) ==
    LET parsedDate == ParseDate(date)
    IN  IF ~parsedDate.ok THEN FALSE ELSE parsedDate.day % 2 # 0

\* the window closed at its upper end: 16:xx taken as well
isBetween2And4PMInclusive(timeStr) ==
    LET parsedTime == ParseClock(timeStr)
    IN  IF ~parsedTime.ok THEN FALSE
        ELSE parsedTime.hour >= 14 /\ parsedTime.hour <= 16

isBetween2And4PM(timeStr) ==
    LET parsedTime == ParseClock(timeStr)
    IN  IF ~parsedTime.ok THEN FALSE
        ELSE parsedTime.hour >= 14 /\ parsedTime.hour < 16

RECURSIVE TrimLeft(_)
TrimLeft(s) ==
    IF Len(s) > 0 /\ s[1] \in WhiteSpace THEN TrimLeft(Tail(s)) ELSE s

RECURSIVE TrimRight(_)
TrimRight(s) ==
    IF Len(s) > 0 /\ s[Len(s)] \in WhiteSpace
    THEN TrimRight(SubSeq(s, 1, Len(s) - 1)) ELSE s

\* strings.TrimSpace
TrimSpace(s) == TrimRight(TrimLeft(s))

\* lines 96..99: what one item adds to points
ItemPoints(item, a) ==
    IF Len(TrimSpace(item.ShortDescription)) % 3 = 0
    THEN CeilFifth(parsePrice(item.Price), a)
    ELSE I64(0)

Rule1Points(r) == I64(Len(getAlphanumericString(r.Retailer)))
Rule2Points(r) == IF isRoundDollar(r.Total) THEN I64(50) ELSE I64(0)
Rule3Points(r) == IF isMultipleOfQuarter(r.Total) THEN I64(25) ELSE I64(0)
\* 2.5 points an item, rounded down, instead of 5 a pair
Rule4PointsPerItem(r) == I64((Len(r.Items) * 5) \div 2)
Rule4Points(r) == I64((Len(r.Items) \div 2) * 5)

RECURSIVE SumItems(_, _)
\* the loop of lines 95..100 over items
SumItems(items, a) ==
    IF Len(items) = 0 THEN I64(0)
    ELSE Add64(ItemPoints(Head(items), a), SumItems(Tail(items), a))

Rule5Points(r, a) == SumItems(r.Items, a)
Rule6Points(r) == IF isOddDay(r.PurchaseDate) THEN I64(6) ELSE I64(0)
Rule7Points(r) == IF isBetween2And4PM(r.PurchaseTime) THEN I64(10) ELSE I64(0)

\* the amounts lines 79, 83, 88, 92, 98, 104 and 109 add to points
RuleDeltas(r, a) ==
    <<Rule1Points(r), Rule2Points(r), Rule3Points(r), Rule4Points(r),
      Rule5Points(r, a), Rule6Points(r), Rule7Points(r)>>

RECURSIVE Sum64(_)
Sum64(ds) == IF Len(ds) = 0 THEN I64(0) ELSE Add64(Head(ds), Sum64(Tail(ds)))

calculatePoints(r, a) == Sum64(RuleDeltas(r, a))


-----------------------------------------------------------------------------
(* Inputs *)

\* bounds of the input sets
MaxLen == 4
MaxCents == 1300
MaxDescLen == 3
MaxTimeLen == 5
MaxItems == 3

\* all strings of length at most n over the characters of A
Strs(A, n) == UNION {[1..k -> A] : k \in 0..n}

RECURSIVE FormatInt(_)
\* the decimal digits of n >= 0
FormatInt(n) ==
    IF n < 10 THEN <<DigitChars[n + 1]>>
    ELSE Append(FormatInt(n \div 10), DigitChars[(n % 10) + 1])

TwoDigits(n) ==
    <<DigitChars[((n \div 10) % 10) + 1], DigitChars[(n % 10) + 1]>>
FourDigits(n) == TwoDigits(n \div 100) \o TwoDigits(n % 100)

\* the canonical text of an amount of c cents: "12.25"
FormatCents(c) == FormatInt(c \div 100) \o <<".">> \o TwoDigits(c % 100)
\* "14:33"
FormatClock(h, m) == TwoDigits(h) \o <<":">> \o TwoDigits(m)
\* "2022-01-01"
FormatDate(y, m, d) ==
    FourDigits(y) \o <<"-">> \o TwoDigits(m) \o <<"-">> \o TwoDigits(d)

StrTarget ==
    <<"T", "a", "r", "g", "e", "t">>

StrMMCornerMarket ==
    <<"M", "&", "M", " ", "C", "o", "r", "n", "e", "r", " ", "M", "a", "r",
      "k", "e", "t">>

StrMountainDew ==
    <<"M", "o", "u", "n", "t", "a", "i", "n", " ", "D", "e", "w", " ", "1",
      "2", "P", "K">>

StrEmilsPizza ==
    <<"E", "m", "i", "l", "s", " ", "C", "h", "e", "e", "s", "e", " ", "P",
      "i", "z", "z", "a">>

StrKnorr ==
    <<"K", "n", "o", "r", "r", " ", "C", "r", "e", "a", "m", "y", " ", "C",
      "h", "i", "c", "k", "e", "n">>

StrDoritos ==
    <<"D", "o", "r", "i", "t", "o", "s", " ", "N", "a", "c", "h", "o", " ",
      "C", "h", "e", "e", "s", "e">>

StrKlarbrunn ==
    <<" ", " ", " ", "K", "l", "a", "r", "b", "r", "u", "n", "n", " ", "1",
      "2", "-", "P", "K", " ", "1", "2", " ", "F", "L", " ", "O", "Z", " ",
      " ">>

Item(desc, price) == [ShortDescription |-> desc, Price |-> price]

\* the example receipt of the challenge
ClassicReceipt ==
    [ID           |-> <<>>,
     Retailer     |-> StrTarget,
     PurchaseDate |-> FormatDate(2022, 1, 1),
     PurchaseTime |-> FormatClock(13, 1),
     Items        |-> <<Item(StrMountainDew, FormatCents(649)),
                        Item(StrEmilsPizza, FormatCents(1225)),
                        Item(StrKnorr, FormatCents(126)),
                        Item(StrDoritos, FormatCents(335)),
                        Item(StrKlarbrunn, FormatCents(1200))>>,
     Total        |-> FormatCents(3535)]

\* the zero value of Receipt
ZeroReceipt ==
    [ID |-> <<>>, Retailer |-> <<>>, PurchaseDate |-> <<>>,
     PurchaseTime |-> <<>>, Items |-> <<>>, Total |-> <<>>]

BaseReceipts == {ClassicReceipt, ZeroReceipt}

NumAlphabet == {"0", "2", "5", ".", "-"}
TimeAlphabet == {"1", "4", "6", ":"}
DescAlphabet == {"a", " "}

NumExamples ==
    {<<"9", ".", "0", "0">>, <<"1", "0", ".", "0">>, <<"1", "0", ".", "0", "1">>,
     <<"$", "9", ".", "0", "0">>, <<"-", "5", ".", "0", "0">>,
     <<"+", "4", ".", "0", "0">>, <<"1", "e", "2">>, <<"2", "5", "e", "-", "2">>,
     <<"1", "e", "9", "9", "9">>, <<"-", "1", "e", "9", "9", "9">>,
     <<"1", "e">>, <<" ", "5", ".", "0", "0">>, <<"5", ".", "0", "0", " ">>}

NumInputs ==
    Strs(NumAlphabet, MaxLen) \cup {FormatCents(c) : c \in 0..MaxCents}
    \cup {FormatCents(3535)} \cup NumExamples

RetailerInputs ==
    {StrTarget, StrMMCornerMarket} \cup Strs({"a", "Z", "7", "&", " "}, MaxDescLen)

DescInputs ==
    Strs(DescAlphabet, MaxDescLen)
    \cup {StrMountainDew, StrEmilsPizza, StrKlarbrunn, <<"\t", "a", "b", "c", "\n">>}

TimeInputs ==
    Strs(TimeAlphabet, MaxTimeLen)
    \cup {FormatClock(h, m) : h \in 0..25, m \in {0, 1, 33, 59, 60}}
    \cup {<<"9", ":", "3", "0">>, <<"1", "4", ":", "3">>,
          <<"1", "4", ":", "3", "3", ":", "0", "0">>, <<"1", "4", "3", "3">>,
          <<"2", ":", "3", "0", "P", "M">>, <<" ", "1", "4", ":", "3", "3">>}

DateInputs ==
    {FormatDate(y, m, d) : y \in {2022, 2024, 1900}, m \in 0..13, d \in 0..32}
    \cup {<<>>, <<"2", "0", "2", "2", "-", "1", "-", "1">>,
          <<"0", "1", "/", "0", "1", "/", "2", "0", "2", "2">>,
          FormatDate(2022, 1, 1) \o <<"T">>,
          <<"2", "2", "-", "0", "1", "-", "0", "1">>}

\* items whose price is well-formed, negative, malformed, out of range
ItemExamples ==
    {Item(<<"a", "b", "c">>, FormatCents(1225)),
     Item(<<"a", "b">>, FormatCents(500)),
     Item(<<>>, <<"-", "5", ".", "0", "0">>),
     Item(<<"a", "b", "c">>, <<"$", "5">>),
     Item(<<" ">>, <<"1", "e", "9", "9", "9">>)}

ItemLists == UNION {[1..k -> ItemExamples] : k \in 0..MaxItems}

SingleItems ==
    {<<Item(<<"a", "b", "c">>, p)>> : p \in NumInputs}
    \cup {<<Item(d, p)>> : d \in DescInputs,
                           p \in {FormatCents(400), FormatCents(1225),
                                   <<"-", "5", ".", "0", "0">>, <<"$", "5">>}}

\* the receipts scored: each differs from a base receipt in one field
RetailerCases(r) == \E b \in BaseReceipts, x \in RetailerInputs :
                        r = [b EXCEPT !.Retailer = x]
TotalCases(r)    == \E b \in BaseReceipts, x \in NumInputs :
                        r = [b EXCEPT !.Total = x]
PriceCases(r)    == \E b \in BaseReceipts, x \in SingleItems :
                        r = [b EXCEPT !.Items = x]
ItemsCases(r)    == \E b \in BaseReceipts, x \in ItemLists :
                        r = [b EXCEPT !.Items = x]
DateCases(r)     == \E b \in BaseReceipts, x \in DateInputs :
                        r = [b EXCEPT !.PurchaseDate = x]
TimeCases(r)     == \E b \in BaseReceipts, x \in TimeInputs :
                        r = [b EXCEPT !.PurchaseTime = x]

-----------------------------------------------------------------------------
(* The Points Engine called on its own *)

NoDeltas == <<>>
NoStore == [id \in {} |-> ZeroReceipt]
NoBodies == [id \in {} |-> 0]
NoResp == [op |-> "none"]

MaxHandlers == 2
Procs == 1..MaxHandlers

IdleHandler ==
    [op |-> "none", pc |-> "idle", body |-> 0, id |-> <<>>,
     rec |-> ZeroReceipt, status |-> 0, pts |-> <<>>, raced |-> FALSE]

ServerIdle == handlers = [p \in Procs |-> IdleHandler] /\ crashed = FALSE
ServiceIdle == receiptStore = NoStore /\ issued = NoBodies /\ resp = NoResp
EngineIdle == receipt = ZeroReceipt /\ pc = "idle" /\ points = I64(0) /\ added = NoDeltas

InitEngine ==
    /\ arch \in Archs
    /\ \/ RetailerCases(receipt)
       \/ TotalCases(receipt)
       \/ PriceCases(receipt)
       \/ ItemsCases(receipt)
       \/ DateCases(receipt)
       \/ TimeCases(receipt)
    /\ pc = "ready"
    /\ points = I64(0)
    /\ added = NoDeltas
    /\ ServiceIdle
    /\ ServerIdle

\* points := calculatePoints(receipt), lines 75..113
Score ==
    /\ pc = "ready"
    /\ added' = RuleDeltas(receipt, arch)
    /\ points' = calculatePoints(receipt, arch)
    /\ pc' = "done"
    /\ UNCHANGED <<arch, receipt, service, server>>

NextEngine == Score

SpecEngine == InitEngine /\ [][NextEngine]_vars

-----------------------------------------------------------------------------
(* The HTTP handlers, one request served at a time *)

MaxReceipts == 2

\* uuid.New().String(): the n-th identifier drawn
FormatUUID(n) == <<"u", "u", "i", "d", "-">> \o FormatInt(n)
UUIDs == {FormatUUID(n) : n \in 1..MaxReceipts}
\* the {id} of a GET path: the identifiers and one that is never drawn
PathIds == UUIDs \cup {<<"n", "o", "n", "e">>}

\* A request body.  json says whether it is a JSON object; has is the set
\* of its keys; doc gives each key's value, [type, val].
JString(s) == [type |-> "string", val |-> s, items |-> <<>>]
JArray(items) == [type |-> "array", val |-> <<>>, items |-> items]
JNumber == [type |-> "number", val |-> <<>>, items |-> <<>>]
JAbsent == [type |-> "absent", val |-> <<>>, items |-> <<>>]

StringKeys == {"id", "retailer", "purchaseDate", "purchaseTime", "total"}
RequiredKeys == {"retailer", "purchaseDate", "purchaseTime", "items", "total"}
Keys == StringKeys \cup {"items"}

\* the JSON object that spells out every field of r
BodyOf(r) ==
    [json |-> TRUE,
     has  |-> RequiredKeys,
     doc  |-> [id |-> JAbsent, retailer |-> JString(r.Retailer),
               purchaseDate |-> JString(r.PurchaseDate),
               purchaseTime |-> JString(r.PurchaseTime),
               items |-> JArray(r.Items), total |-> JString(r.Total)]]

Without(body, k) ==
    [body EXCEPT !.has = @ \ {k}, !.doc[k] = JAbsent]
WithKey(body, k, v) ==
    [body EXCEPT !.has = @ \cup {k}, !.doc[k] = v]

EmptyObject ==
    [json |-> TRUE, has |-> {}, doc |-> [k \in Keys |-> JAbsent]]
NotJSON == [EmptyObject EXCEPT !.json = FALSE]

SmallReceipt ==
    [ID |-> <<>>, Retailer |-> <<"M", "&", "M">>,
     PurchaseDate |-> FormatDate(2022, 3, 20),
     PurchaseTime |-> FormatClock(14, 33),
     Items |-> <<Item(<<"a", "b", "c">>, FormatCents(225)),
                 Item(<<"a", "b">>, FormatCents(675))>>,
     Total |-> FormatCents(900)]

Bodies ==
    {BodyOf(ClassicReceipt), BodyOf(SmallReceipt),
     WithKey(BodyOf(SmallReceipt), "id", JString(FormatUUID(1))),
     NotJSON, EmptyObject,
     Without(BodyOf(ClassicReceipt), "total"),
     Without(BodyOf(SmallReceipt), "items"),
     WithKey(BodyOf(ClassicReceipt), "total", JNumber)}

\* json.NewDecoder(r.Body).Decode(&receipt), line 38: a key the body lacks
\* leaves the field at its zero value; a value of the wrong JSON type is an
\* UnmarshalTypeError
Decode(body) ==
    LET typeOf(k) == IF k = "items" THEN "array" ELSE "string"
        str(k) == IF k \in body.has /\ body.doc[k].type = "string"
                  THEN body.doc[k].val ELSE <<>>
    IN  IF ~body.json THEN [err |-> TRUE, receipt |-> ZeroReceipt]
        ELSE [err |-> \E k \in body.has : body.doc[k].type # typeOf(k),
              receipt |->
                [ID           |-> str("id"),
                 Retailer     |-> str("retailer"),
                 PurchaseDate |-> str("purchaseDate"),
                 PurchaseTime |-> str("purchaseTime"),
                 Items        |-> IF "items" \in body.has
                                     /\ body.doc["items"].type = "array"
                                  THEN body.doc["items"].items ELSE <<>>,
                 Total        |-> str("total")]]

Response(op, body, id, status, pts, scored) ==
    [op |-> op, body |-> body, id |-> id, status |-> status,
     points |-> pts, scored |-> scored]

\* ProcessReceipt, lines 36..52, on a request with this body
ProcessReceipt(body) ==
    LET d == Decode(body)
    IN  /\ IF d.err
           THEN /\ resp' = Response("ProcessReceipt", body, <<>>, 400, <<>>, <<>>)
                /\ UNCHANGED <<receiptStore, issued>>
           ELSE \E id \in UUIDs \ DOMAIN issued :
                /\ receiptStore' = [k \in DOMAIN receiptStore \cup {id} |->
                                      IF k = id THEN [d.receipt EXCEPT !.ID = id]
                                      ELSE receiptStore[k]]
                /\ issued' = [k \in DOMAIN issued \cup {id} |->
                                IF k = id THEN body ELSE issued[k]]
                /\ resp' = Response("ProcessReceipt", body, id, 200, <<>>, <<>>)
        /\ UNCHANGED <<arch, engine, server>>

\* GetPoints that removes the receipt it has scored
GetPointsOnce(id) ==
    /\ IF id \notin DOMAIN receiptStore
       THEN /\ resp' = Response("GetPoints", NotJSON, id, 404, <<>>, <<>>)
            /\ UNCHANGED receiptStore
       ELSE /\ resp' = Response("GetPoints", NotJSON, id, 200,
                                <<calculatePoints(receiptStore[id], arch)>>,
                                <<receiptStore[id]>>)
            /\ receiptStore' = [k \in DOMAIN receiptStore \ {id} |->
                                  receiptStore[k]]
    /\ UNCHANGED <<issued, arch, engine, server>>

\* GetPoints without the test of exists: a missing id reads the zero Receipt
GetPointsUnchecked(id) ==
    /\ LET r == IF id \in DOMAIN receiptStore THEN receiptStore[id]
                ELSE ZeroReceipt
       IN  resp' = Response("GetPoints", NotJSON, id, 200,
                            <<calculatePoints(r, arch)>>, <<r>>)
    /\ UNCHANGED <<receiptStore, issued, arch, engine, server>>

\* GetPoints, lines 55..72, on a request for /receipts/{id}/points
GetPoints(id) ==
    /\ IF id \notin DOMAIN receiptStore
       THEN resp' = Response("GetPoints", NotJSON, id, 404, <<>>, <<>>)
       ELSE resp' = Response("GetPoints", NotJSON, id, 200,
                             <<calculatePoints(receiptStore[id], arch)>>,
                             <<receiptStore[id]>>)
    /\ UNCHANGED <<receiptStore, issued, arch, engine, server>>

Init ==
    /\ arch \in Archs
    /\ EngineIdle
    /\ ServiceIdle
    /\ ServerIdle

Next ==
    \/ \E body \in Bodies : ProcessReceipt(body)
    \/ \E id \in PathIds : GetPoints(id)

Spec == Init /\ [][Next]_vars


-----------------------------------------------------------------------------
(* The HTTP handlers as the server runs them: http.ListenAndServe serves   *)
(* each request in a goroutine of its own, and the handlers read and write *)
(* receiptStore with no lock.  A map access takes time: it begins and it   *)
(* ends.  A write that overlaps another access of the map is a data race:  *)
(* the runtime may notice it and throw ("fatal error: concurrent map       *)
(* writes", "concurrent map read and map write"), or the accesses go on    *)
(* and a racing write or read may miss an entry.                           *)
(***************************************************************************)

ConcBodies == {BodyOf(SmallReceipt), BodyOf(ClassicReceipt), NotJSON}

Accessing(p) == handlers[p].pc \in {"assigning", "looking"}
\* the accesses of the map that race with one that p begins
RacesWith(p, write) ==
    {q \in Procs \ {p} :
        Accessing(q) /\ (write \/ handlers[q].pc = "assigning")}

\* the server accepts a POST /receipts/process and starts its handler
ServeProcess(p, body) ==
    /\ ~crashed /\ handlers[p].pc = "idle"
    /\ handlers' = [handlers EXCEPT ![p] = [@ EXCEPT !.op = "ProcessReceipt",
                                        !.pc = "decode", !.body = body]]
    /\ UNCHANGED <<arch, engine, service, crashed>>

\* the server accepts a GET /receipts/{id}/points and starts its handler
ServePoints(p, id) ==
    /\ ~crashed /\ handlers[p].pc = "idle"
    /\ handlers' = [handlers EXCEPT ![p] = [@ EXCEPT !.op = "GetPoints",
                                        !.pc = "lookup", !.id = id]]
    /\ UNCHANGED <<arch, engine, service, crashed>>

\* lines 37..44: decode the body, answer 400 or draw the identifier
DecodeBody(p) ==
    /\ ~crashed /\ handlers[p].pc = "decode"
    /\ LET d == Decode(handlers[p].body)
       IN  IF d.err
           THEN handlers' = [handlers EXCEPT ![p] =
                              [@ EXCEPT !.pc = "done", !.status = 400]]
           ELSE \E id \in UUIDs :
                /\ \A q \in Procs : handlers[q].op = "ProcessReceipt"
                                      => handlers[q].id # id
                /\ handlers' = [handlers EXCEPT ![p] =
                           [@ EXCEPT !.pc = "assign", !.id = id,
                                     !.rec = [d.receipt EXCEPT !.ID = id]]]
    /\ UNCHANGED <<arch, engine, service, crashed>>

\* line 47, receiptStore[receipt.ID] = receipt: the write begins
BeginAssign(p) ==
    /\ ~crashed /\ handlers[p].pc = "assign"
    /\ handlers' = [q \in Procs |->
               IF q = p THEN [handlers[q] EXCEPT !.pc = "assigning",
                                          !.raced = RacesWith(p, TRUE) # {}]
               ELSE IF q \in RacesWith(p, TRUE)
                    THEN [handlers[q] EXCEPT !.raced = TRUE]
               ELSE handlers[q]]
    /\ UNCHANGED <<arch, engine, service, crashed>>

\* line 47 ends, lines 50..51 answer with the id
EndAssign(p) ==
    /\ ~crashed /\ handlers[p].pc = "assigning"
    /\ \/ receiptStore' = [k \in DOMAIN receiptStore \cup {handlers[p].id} |->
                             IF k = handlers[p].id THEN handlers[p].rec
                             ELSE receiptStore[k]]
       \/ handlers[p].raced /\ UNCHANGED receiptStore
    /\ handlers' = [handlers EXCEPT ![p] = [@ EXCEPT !.pc = "done", !.status = 200]]
    /\ UNCHANGED <<arch, engine, issued, resp, crashed>>

\* line 60, receipt, exists := receiptStore[id]: the read begins
BeginLookup(p) ==
    /\ ~crashed /\ handlers[p].pc = "lookup"
    /\ handlers' = [handlers EXCEPT ![p] = [@ EXCEPT !.pc = "looking",
                                        !.raced = RacesWith(p, FALSE) # {}]]
    /\ UNCHANGED <<arch, engine, service, crashed>>

\* line 60 ends, lines 61..71 answer 404 or the points
EndLookup(p) ==
    /\ ~crashed /\ handlers[p].pc = "looking"
    /\ \/ /\ handlers[p].id \in DOMAIN receiptStore
          /\ handlers' = [handlers EXCEPT ![p] =
                     [@ EXCEPT !.pc = "done", !.status = 200,
                               !.rec = receiptStore[handlers[p].id],
                               !.pts = <<calculatePoints(receiptStore[handlers[p].id],
                                                         arch)>>]]
       \/ /\ handlers[p].id \notin DOMAIN receiptStore \/ handlers[p].raced
          /\ handlers' = [handlers EXCEPT ![p] =
                             [@ EXCEPT !.pc = "done", !.status = 404]]
    /\ UNCHANGED <<arch, engine, service, crashed>>

\* the runtime notices a racing access of the map and ends the process
Fatal ==
    /\ ~crashed
    /\ \E p \in Procs : Accessing(p) /\ handlers[p].raced
    /\ crashed' = TRUE
    /\ UNCHANGED <<arch, engine, service, handlers>>

NextConc ==
    \/ \E p \in Procs, body \in ConcBodies : ServeProcess(p, body)
    \/ \E p \in Procs, id \in PathIds : ServePoints(p, id)
    \/ \E p \in Procs : DecodeBody(p)
    \/ \E p \in Procs : BeginAssign(p)
    \/ \E p \in Procs : EndAssign(p)
    \/ \E p \in Procs : BeginLookup(p)
    \/ \E p \in Procs : EndLookup(p)
    \/ Fatal

SpecConc == Init /\ [][NextConc]_vars


-----------------------------------------------------------------------------
(* Properties of the Points Engine, checked under SpecEngine *)

Done == pc = "done"

\* the length of s between its first and its last non-blank character
TrimmedLen(s) ==
    LET solid == {k \in 1..Len(s) : s[k] \notin WhiteSpace}
    IN  IF solid = {} THEN 0
        ELSE (CHOOSE k \in solid : \A j \in solid : j <= k)
             - (CHOOSE k \in solid : \A j \in solid : k <= j) + 1

\* s is an amount in canonical form: digits, '.', two digits
IsCanonical(s) ==
    /\ Len(s) >= 4
    /\ s[Len(s) - 2] = "."
    /\ \A k \in (1..Len(s)) \ {Len(s) - 2} : s[k] \in Digits
    /\ (Len(s) > 4 => s[1] # "0")

\* the cents of a canonical amount
CentsOf(s) ==
    DigitsVal(SubSeq(s, 1, Len(s) - 3)) * 100
    + DigitVal(s[Len(s) - 1]) * 10 + DigitVal(s[Len(s)])

\* C1: calculatePoints returns a non-negative integer for every receipt,
\* and none of the seven rules adds a negative amount.
C1_NonNegative ==
    Done => /\ ~IsNegative64(points)
            /\ \A i \in 1..7 : ~IsNegative64(added[i])

\* C2: a field that cannot be parsed makes the rule that reads it add
\* exactly 0: the total for rule 3, the items' prices for rule 5, the date
\* for rule 6, the time for rule 7.
C2_UnparsedAddsZero ==
    Done =>
        /\ (ParseFloat(receipt.Total).err # "nil" => added[3] = I64(0))
        /\ ((\A i \in 1..Len(receipt.Items) :
                ParseFloat(receipt.Items[i].Price).err # "nil")
             => added[5] = I64(0))
        /\ (~ParseDate(receipt.PurchaseDate).ok => added[6] = I64(0))
        /\ (~ParseClock(receipt.PurchaseTime).ok => added[7] = I64(0))

\* C3: the example receipt scores exactly 28: 6 for the retailer, nothing
\* for the total, 10 for five items, 3 each for the two items whose trimmed
\* description length is a multiple of 3, 6 for the odd day, nothing for
\* the time.
C3_ClassicIs28 ==
    (Done /\ receipt = ClassicReceipt) =>
        /\ points = I64(28)
        /\ added = <<I64(6), I64(0), I64(0), I64(10), I64(6), I64(6), I64(0)>>
        /\ ItemPoints(receipt.Items[2], arch) = I64(3)
        /\ ItemPoints(receipt.Items[5], arch) = I64(3)
        /\ \A i \in {1, 3, 4} : ItemPoints(receipt.Items[i], arch) = I64(0)

C3_Witness == Done /\ receipt = ClassicReceipt /\ points = I64(28)

\* what rule 5 is to add for an item with a canonical price
ExpectedItemPoints(item) ==
    IF TrimmedLen(item.ShortDescription) % 3 = 0
    THEN (CentsOf(item.Price) + 499) \div 500
    ELSE 0

RECURSIVE ExpectedSum(_)
ExpectedSum(items) ==
    IF Len(items) = 0 THEN 0
    ELSE ExpectedItemPoints(Head(items)) + ExpectedSum(Tail(items))

\* C4: rule 5 adds, for each item on its own, the price times 0.2 rounded
\* up when the trimmed description length is a multiple of 3 (0 included)
\* and nothing otherwise: 4.00 gives 1, 3.00 gives 1, 12.25 gives 3, and a
\* multiple of 5.00 gives the price divided by 5.
C4_ItemPoints ==
    Done =>
        /\ (\A i \in 1..Len(receipt.Items) : IsCanonical(receipt.Items[i].Price))
           => added[5] = I64(ExpectedSum(receipt.Items))
        /\ \A d \in {<<>>, <<" ">>, <<"a", "b", "c">>} :
           /\ receipt.Items = <<Item(d, FormatCents(400))>> => added[5] = I64(1)
           /\ receipt.Items = <<Item(d, FormatCents(300))>> => added[5] = I64(1)
           /\ receipt.Items = <<Item(d, FormatCents(1225))>> => added[5] = I64(3)
           /\ \A k \in 0..(MaxCents \div 500) :
                receipt.Items = <<Item(d, FormatCents(500 * k))>>
                => added[5] = I64(k)
        /\ \A d \in {<<"a">>, <<"a", " ", "b", "c">>, <<" ", "a", "b">>} :
           \A i \in 1..Len(receipt.Items) :
                receipt.Items = <<Item(d, receipt.Items[i].Price)>>
                => added[5] = I64(0)

C4_Witness ==
    /\ Done
    /\ receipt.Items = <<Item(<<" ">>, FormatCents(400))>>
    /\ added[5] = I64(1)

\* C5: the total earns 50 exactly when its text ends with ".00" and 25
\* exactly when it parses to a multiple of 0.25, and touches no other rule:
\* "9.00" earns 75, "35.35" nothing, "10.0" only the 25, and a parseable
\* total that earns the 50 earns the 25 too.
C5_TotalPoints ==
    Done =>
        LET t == receipt.Total
            n == Len(t)
            blank == RuleDeltas([receipt EXCEPT !.Total = <<>>], arch)
        IN  /\ added[2] \in {I64(0), I64(50)}
            /\ added[3] \in {I64(0), I64(25)}
            /\ added[2] = I64(50)
               <=> (n >= 3 /\ t[n - 2] = "." /\ t[n - 1] = "0" /\ t[n] = "0")
            /\ IsCanonical(t) => (added[3] = I64(25) <=> CentsOf(t) % 25 = 0)
            /\ IsCanonical(t) => (added[2] = I64(50) <=> CentsOf(t) % 100 = 0)
            /\ t = <<"9", ".", "0", "0">>
               => added[2] = I64(50) /\ added[3] = I64(25)
            /\ t = <<"3", "5", ".", "3", "5">>
               => added[2] = I64(0) /\ added[3] = I64(0)
            /\ t = <<"1", "0", ".", "0">>
               => added[2] = I64(0) /\ added[3] = I64(25)
            /\ (added[2] = I64(50) /\ ParseFloat(t).err = "nil")
               => added[3] = I64(25)
            /\ \A i \in {1, 4, 5, 6, 7} : added[i] = blank[i]

C5_Witness ==
    /\ Done
    /\ receipt.Total = <<"1", "0", ".", "0">>
    /\ added[2] = I64(0) /\ added[3] = I64(25)

\* the text is a 24-hour "HH:MM" time whose hour is 14 or 15
IsAfternoonText(s) ==
    /\ Len(s) = 5
    /\ s[1] = "1" /\ s[2] \in {"4", "5"}
    /\ s[3] = ":"
    /\ s[4] \in {"0", "1", "2", "3", "4", "5"} /\ s[5] \in Digits

\* C6: rule 7 adds 10 exactly when the purchase time is a valid 24-hour
\* "HH:MM" time from 14:00 through 15:59, and 0 for any other text, 13:59,
\* 16:00 and malformed times included.
C6_AfternoonPoints ==
    Done =>
        /\ added[7] = (IF IsAfternoonText(receipt.PurchaseTime)
                       THEN I64(10) ELSE I64(0))
        /\ receipt.PurchaseTime \in {FormatClock(13, 59), FormatClock(16, 0)}
           => added[7] = I64(0)
        /\ receipt.PurchaseTime \in {FormatClock(14, 0), FormatClock(14, 33),
                                      FormatClock(15, 59)}
           => added[7] = I64(10)

C6_Witness ==
    Done /\ receipt.PurchaseTime = FormatClock(15, 59) /\ added[7] = I64(10)


-----------------------------------------------------------------------------
(* Properties of the handlers, checked under Spec *)

\* the receipt a body spells out
Submitted(body) == Decode(body).receipt

\* every id returned holds the receipt submitted under it, and the last
\* GetPoints for such an id answered 200 with that receipt's points
C7_StoredState ==
    /\ \A id \in DOMAIN issued :
          /\ id \in DOMAIN receiptStore
          /\ receiptStore[id] = [Submitted(issued[id]) EXCEPT !.ID = id]
    /\ (resp.op = "GetPoints" /\ resp.id \in DOMAIN issued)
       => /\ resp.status = 200
          /\ resp.points = <<calculatePoints(Submitted(issued[resp.id]), arch)>>

\* no step changes or removes a stored receipt; the store changes only by
\* a successful ProcessReceipt adding an entry under a new id
C7_StoredStep ==
    /\ \A id \in DOMAIN issued :
          /\ id \in DOMAIN issued' /\ issued'[id] = issued[id]
          /\ id \in DOMAIN receiptStore'
          /\ receiptStore'[id] = receiptStore[id]
    /\ receiptStore' # receiptStore
       => /\ resp'.op = "ProcessReceipt" /\ resp'.status = 200
          /\ resp'.id \notin DOMAIN receiptStore
          /\ DOMAIN receiptStore' = DOMAIN receiptStore \cup {resp'.id}
    /\ resp'.op = "GetPoints" => receiptStore' = receiptStore

\* C7: a receipt, once stored under an id, stays as it was submitted, and
\* every GetPoints for that id answers 200 with the points of that
\* receipt; no later submission, query or failed request changes or
\* removes it, and GetPoints leaves the store unchanged.
C7_StoredReceiptsKeep == []C7_StoredState /\ [][C7_StoredStep]_vars

\* a GetPoints answered after a later submission and an earlier query
C7_Witness ==
    /\ resp.op = "GetPoints" /\ resp.status = 200
    /\ resp.id = FormatUUID(1)
    /\ Cardinality(DOMAIN issued) = MaxReceipts
    /\ issued[resp.id] = BodyOf(ClassicReceipt)
    /\ resp.points = <<I64(28)>>

\* the last GetPoints for an id never returned answered 404, without
\* points and without scoring a receipt
C8_UnknownIdState ==
    (resp.op = "GetPoints" /\ resp.id \notin DOMAIN issued)
    => /\ resp.status = 404
       /\ resp.points = <<>>
       /\ resp.scored = <<>>

\* and it leaves the store as it was
C8_UnknownIdStep ==
    (resp'.op = "GetPoints" /\ resp'.id \notin DOMAIN issued)
    => receiptStore' = receiptStore /\ issued' = issued

\* C8: GetPoints for an id that no ProcessReceipt returned answers 404,
\* carries no points, scores no receipt and leaves the store unchanged.
C8_UnknownIdNotFound == []C8_UnknownIdState /\ [][C8_UnknownIdStep]_vars

C8_Witness ==
    /\ resp.op = "GetPoints" /\ resp.status = 404
    /\ resp.id \in UUIDs
    /\ DOMAIN receiptStore # {}

\* the body is not JSON, or lacks a required field
StructurallyInvalid(body) == ~body.json \/ ~(RequiredKeys \subseteq body.has)

\* C9: ProcessReceipt answers a structurally invalid submission with an
\* error and no id, and no stored receipt comes from such a submission.
C9_RejectsInvalid ==
    /\ (resp.op = "ProcessReceipt" /\ StructurallyInvalid(resp.body))
       => resp.status = 400 /\ resp.id = <<>>
    /\ \A id \in DOMAIN issued : ~StructurallyInvalid(issued[id])

-----------------------------------------------------------------------------
(* Properties of the concurrent handlers, checked under SpecConc *)

\* C10: no write of receiptStore overlaps another access of it, and when
\* every handler has finished, each receipt whose id was returned is in
\* the store as submitted.
C10_SafeStore ==
    /\ \A p \in Procs : handlers[p].pc = "assigning" => RacesWith(p, TRUE) = {}
    /\ ~crashed
    /\ (\A p \in Procs : handlers[p].pc \in {"idle", "done"})
       => \A p \in Procs :
            (handlers[p].op = "ProcessReceipt" /\ handlers[p].status = 200)
            => /\ handlers[p].id \in DOMAIN receiptStore
               /\ receiptStore[handlers[p].id] = handlers[p].rec

=============================================================================
